---- MODULE Spec2Model ----
(***************************************************************************)
(* Model of GestorCotizaciones (src/logica_cotizador.py): the base catalog,*)
(* the available/selected partition, the comment table and the JSON        *)
(* storage file, with one action per public method.                        *)
(***************************************************************************)
EXTENDS Integers, Sequences, FiniteSets, TLC

(* ---------------------------- bounds ---------------------------------- *)
\* longest cotizaciones_base that agregar_nueva_cotizacion_base extends
MaxBase == 2
\* most writes of the storage file that fail in one run
MaxFallas == 1
\* latest reading of the clock, in ticks
MaxInstante == 2

(* ---------------------------- values ---------------------------------- *)
\* entries are tuples (nombre, precio, categoria); identity is the triple
ItemA == <<"A", 10, "X">>
ItemB == <<"B", 20, "Y">>
Items == {ItemA, ItemB}

\* comment texts a caller may set
Textos == {"", "c1"}
\* marks an identity that is not a key of the comentarios dict
SinComentario == "<sin comentario>"

\* arguments of filtrar_disponibles_por_categoria
Categorias == {"Todas", "X", "Y"}

\* outcomes of the write in guardar_cotizaciones_en_json: it succeeds, it
\* fails before the file is touched (conversion or open raises), or it fails
\* after open(..., 'w') truncated the file
ResultadosEscritura == {"ok", "falla_antes", "falla_durante"}

(* ------------------------ list helpers (Python) ----------------------- *)
\* x in lista
In(x, lista) == \E i \in 1..Len(lista) : lista[i] = x

\* set of the elements of a list
Conjunto(lista) == {lista[i] : i \in 1..Len(lista)}

\* index of the first occurrence of x
Primera(x, lista) == CHOOSE i \in 1..Len(lista) :
                        lista[i] = x /\ \A j \in 1..(i-1) : lista[j] # x

\* lista.remove(x): deletes the first occurrence only
Remove(lista, x) ==
    LET k == Primera(x, lista)
    IN  [i \in 1..(Len(lista)-1) |-> IF i < k THEN lista[i] ELSE lista[i+1]]

\* [e for e in lista if Test(e)]
RECURSIVE Filtrar(_, _, _)
Filtrar(lista, cat, sel) ==
    IF lista = <<>> THEN <<>>
    ELSE LET e == Head(lista)
             resto == Filtrar(Tail(lista), cat, sel)
         IN  IF (cat = "Todas" \/ e[3] = cat) /\ ~In(e, sel)
             THEN <<e>> \o resto ELSE resto

(* --------------------------- storage file ----------------------------- *)
\* one JSON object of the storage file; faltan is the set of keys the object
\* does not have (the value modelled for such a key is never read)
RegistroSin(item, comentario, faltan) ==
    [nombre |-> item[1], precio |-> item[2], categoria |-> item[3],
     comentario |-> comentario, faltan |-> faltan]

\* an object with the four keys, as the save writes it
Registro(item, comentario) == RegistroSin(item, comentario, {})

\* a record that lacks the required key "precio"
RegistroInvalido == RegistroSin(ItemA, "", {"precio"})

\* cotizacion["nombre"], ["precio"], ["categoria"] do not raise KeyError
RegistroValido(r) == r.faltan \cap {"nombre", "precio", "categoria"} = {}

\* the tuple built from a record on load
ItemDe(r) == <<r.nombre, r.precio, r.categoria>>

\* the storage resource: absent, not valid JSON, present but impossible to
\* open (a directory, no permission), or a JSON list of objects
ArchivoAusente == [estado |-> "ausente", registros |-> <<>>]
ArchivoCorrupto == [estado |-> "corrupto", registros |-> <<>>]
ArchivoIlegible == [estado |-> "ilegible", registros |-> <<>>]
ArchivoJson(regs) == [estado |-> "ok", registros |-> regs]

\* the storage found at start-up: no file, a broken one, and lists with
\* and without comments, with a repeated identity, with an object that has
\* no "comentario" key, and with an object that lacks a required key
ArchivosIniciales ==
    {ArchivoAusente, ArchivoCorrupto, ArchivoIlegible,
     ArchivoJson(<<>>),
     ArchivoJson(<<Registro(ItemA, "")>>),
     ArchivoJson(<<Registro(ItemA, "c1"), Registro(ItemB, "")>>),
     ArchivoJson(<<RegistroSin(ItemB, "", {"comentario"}), Registro(ItemA, "c1")>>),
     ArchivoJson(<<Registro(ItemA, "c1"), Registro(ItemA, "")>>),
     ArchivoJson(<<Registro(ItemB, "c1"), RegistroInvalido>>),
     ArchivoJson(<<RegistroInvalido>>)}

(* ------------------------- in-memory state ---------------------------- *)
VARIABLES
    cotizaciones_base,          \* list of entries
    cotizaciones_disponibles,   \* list of entries
    cotizaciones_seleccionadas, \* list of entries
    comentarios,                \* dict identity -> text (SinComentario: no key)
    archivo,                    \* content of ARCHIVO_COTIZACIONES
    ult,                        \* last call: method, argument, result, save outcome
    alguna_vez_base,            \* identities that have been in base (this manager)
    filtro_especifico,          \* filter was called with a specific category
    ida,                        \* snapshot taken by a successful agregar_a_seleccionadas
    fallas,                     \* failing writes used up (MaxFallas: none is left)
    vigente,                    \* category last filtered and what was called since
    observa                     \* which of ult, alguna_vez_base, filtro_especifico, ida, vigente a run records

vars == <<cotizaciones_base, cotizaciones_disponibles, cotizaciones_seleccionadas,
          comentarios, archivo, ult, alguna_vez_base, filtro_especifico, ida, fallas,
          vigente, observa>>

\* the manager's fields as one record
Gestor(b, d, s, c) == [base |-> b, disp |-> d, sel |-> s, com |-> c]

Actual == Gestor(cotizaciones_base, cotizaciones_disponibles,
                 cotizaciones_seleccionadas, comentarios)

DictVacio == [i \in Items |-> SinComentario]

GestorVacio == Gestor(<<>>, <<>>, <<>>, DictVacio)

SinIda == [fase |-> "no", item |-> ItemA, disp |-> {}, sel |-> {}]

\* no filter has been applied to the lists that the manager holds now
SinFiltro == [categoria |-> "-", anexo |-> FALSE, movido |-> FALSE]


NoItem == <<"-", 0, "-">>

\* a spreadsheet file in the working directory: none, one that a failed
\* write left incomplete, or a complete one with its rows
SinArchivo == [estado |-> "ninguno", filas |-> <<>>]
ArchivoParcial == [estado |-> "parcial", filas |-> <<>>]
Documento(filas) == [estado |-> "completo", filas |-> filas]

\* a finished call: the method, its entry argument, its other argument (a
\* category, a comment text; "-" when it has none), what it returned,
\* whether the save it made succeeded ("si", "no", "-" when it made none),
\* and the spreadsheet file it wrote
LlamadaCon(op, item, arg, ret, guardado) ==
    [op |-> op, item |-> item, arg |-> arg, ret |-> ret, guardado |-> guardado,
     escrito |-> SinArchivo]

Llamada(op, item, ret, guardado) == LlamadaCon(op, item, "-", ret, guardado)

SinLlamada == Llamada("-", NoItem, "-", "-")

(* ------------------------------ load ---------------------------------- *)
\* the loop of cargar_cotizaciones_desde_json over the parsed records:
\* base gets one tuple per record, comentarios the non-empty comments
RECURSIVE LeerBase(_)
LeerBase(regs) ==
    IF regs = <<>> THEN <<>>
    ELSE Append(LeerBase(SubSeq(regs, 1, Len(regs)-1)), ItemDe(regs[Len(regs)]))

\* variant: the key is looked up under a name the save never writes
TieneComentario_otra_clave(r) == FALSE

\* variant: an empty "comentario" is kept as a comment too
TieneComentario_con_vacio(r) == "comentario" \notin r.faltan

\* "comentario" in cotizacion and cotizacion["comentario"]
TieneComentario(r) == "comentario" \notin r.faltan /\ r.comentario # ""

RECURSIVE LeerComentarios(_)
LeerComentarios(regs) ==
    IF regs = <<>> THEN DictVacio
    ELSE LET antes == LeerComentarios(SubSeq(regs, 1, Len(regs)-1))
             r == regs[Len(regs)]
         IN  IF TieneComentario(r)
             THEN [antes EXCEPT ![ItemDe(r)] = r.comentario]
             ELSE antes

\* records read before the first one that raises KeyError
RECURSIVE PrefijoValido(_)
PrefijoValido(regs) ==
    IF regs = <<>> \/ ~RegistroValido(Head(regs)) THEN <<>>
    ELSE <<Head(regs)>> \o PrefijoValido(Tail(regs))

\* variant: the except branch leaves what was assigned before the error
AlFallar_sin_reiniciar(parcial) == parcial

\* the except branches: whatever was assigned so far is thrown away
AlFallar(parcial) == GestorVacio

\* cargar_cotizaciones_desde_json called on manager g with storage f
cargar_cotizaciones_desde_json(g, f) ==
    CASE f.estado = "ausente" ->
            [g |-> GestorVacio, ret |-> "True"]
      [] f.estado = "ilegible" ->
            [g |-> AlFallar(g), ret |-> "False"]
      [] f.estado = "corrupto" ->
            [g |-> AlFallar(g), ret |-> "False"]
      [] OTHER ->
            LET leidos == PrefijoValido(f.registros)
                b == LeerBase(leidos)
                c == LeerComentarios(leidos)
            IN  IF Len(leidos) = Len(f.registros)
                THEN [g |-> Gestor(b, b, <<>>, c), ret |-> "True"]
                ELSE [g |-> AlFallar(Gestor(b, g.disp, g.sel, c)), ret |-> "False"]

(* ------------------------------ save ---------------------------------- *)
\* the "comentario" written for item: its comment, "" when it has none
ComentarioGuardado(c, item) == IF c[item] # SinComentario THEN c[item] ELSE ""

\* the list of dicts built from base and comentarios
RECURSIVE Serializar(_, _)
Serializar(b, c) ==
    IF b = <<>> THEN <<>>
    ELSE LET item == Head(b)
         IN  <<Registro(item, ComentarioGuardado(c, item))>>
                 \o Serializar(Tail(b), c)

\* variant: the records the file already holds for identities that are not
\* in base are kept in front of the new ones
guardar_cotizaciones_en_json_fusiona(g, f, res) ==
    LET Fuera(r) == ~In(ItemDe(r), g.base)
        viejos == IF f.estado = "ok" THEN SelectSeq(f.registros, Fuera) ELSE <<>>
    IN  IF f.estado = "ilegible" \/ res = "falla_antes"
        THEN [archivo |-> f, ret |-> "False"]
        ELSE IF res = "falla_durante"
        THEN [archivo |-> ArchivoCorrupto, ret |-> "False"]
        ELSE [archivo |-> ArchivoJson(viejos \o Serializar(g.base, g.com)),
              ret |-> "True"]

\* guardar_cotizaciones_en_json with write outcome res
guardar_cotizaciones_en_json(g, f, res) ==
    IF f.estado = "ilegible" \/ res = "falla_antes"
    THEN [archivo |-> f, ret |-> "False"]
    ELSE IF res = "falla_durante"
    THEN [archivo |-> ArchivoCorrupto, ret |-> "False"]
    ELSE [archivo |-> ArchivoJson(Serializar(g.base, g.com)), ret |-> "True"]

Guardado(r) == IF r.ret = "True" THEN "si" ELSE "no"

(* ------------------- methods on the in-memory state ------------------- *)
\* variant: the entries that are selected are listed too
filtrar_disponibles_por_categoria_con_seleccionadas(g, categoria) ==
    LET g2 == [g EXCEPT !.disp = Filtrar(g.base, categoria, <<>>)]
    IN  [g |-> g2, ret |-> g2.disp]

\* variant: the category is not looked at
filtrar_disponibles_por_categoria_sin_categoria(g, categoria) ==
    LET g2 == [g EXCEPT !.disp = Filtrar(g.base, "Todas", g.sel)]
    IN  [g |-> g2, ret |-> g2.disp]

filtrar_disponibles_por_categoria(g, categoria) ==
    LET g2 == [g EXCEPT !.disp = Filtrar(g.base, categoria, g.sel)]
    IN  [g |-> g2, ret |-> g2.disp]

\* the category strings in ascending order of Python's str comparison
OrdenCategorias == <<"X", "Y">>

\* variant: the categories are those of the entries on offer
obtener_categorias_unicas_de_disponibles(g) ==
    LET EnDisp(c) == \E i \in 1..Len(g.disp) : g.disp[i][3] = c
    IN  SelectSeq(OrdenCategorias, EnDisp)

\* sorted(set(categoria for _, _, categoria in self.cotizaciones_base))
obtener_categorias_unicas(g) ==
    LET EnBase(c) == \E i \in 1..Len(g.base) : g.base[i][3] = c
    IN  SelectSeq(OrdenCategorias, EnBase)

\* sum(precio for _, precio, _ in lista)
RECURSIVE Suma(_)
Suma(lista) == IF lista = <<>> THEN 0 ELSE Head(lista)[2] + Suma(Tail(lista))

\* variant: the prices of the whole catalog are added up
calcular_total_de_base(g) == Suma(g.base)

calcular_total(g) == Suma(g.sel)

\* variant: an entry that is selected already is appended once more
agregar_a_seleccionadas_sin_revisar(g, item) ==
    [g |-> [g EXCEPT !.sel = Append(g.sel, item),
                     !.disp = IF In(item, g.disp) THEN Remove(g.disp, item)
                              ELSE g.disp],
     ret |-> "True"]

agregar_a_seleccionadas(g, item) ==
    IF In(item, g.sel)
    THEN [g |-> g, ret |-> "False"]
    ELSE [g |-> [g EXCEPT !.sel = Append(g.sel, item),
                          !.disp = IF In(item, g.disp) THEN Remove(g.disp, item)
                                   ELSE g.disp],
          ret |-> "True"]

\* variant: the entry goes back to available even when it is there already
quitar_de_seleccionadas_siempre_agrega(g, item) ==
    IF ~In(item, g.sel)
    THEN [g |-> g, ret |-> "False"]
    ELSE [g |-> [g EXCEPT !.sel = Remove(g.sel, item),
                          !.disp = IF In(item, g.base)
                                   THEN Append(g.disp, item) ELSE g.disp],
          ret |-> "True"]

\* variant: the entry is taken out of selected and not put back in available
quitar_de_seleccionadas_no_devuelve(g, item) ==
    IF ~In(item, g.sel)
    THEN [g |-> g, ret |-> "False"]
    ELSE [g |-> [g EXCEPT !.sel = Remove(g.sel, item)], ret |-> "True"]

quitar_de_seleccionadas(g, item) ==
    IF ~In(item, g.sel)
    THEN [g |-> g, ret |-> "False"]
    ELSE [g |-> [g EXCEPT !.sel = Remove(g.sel, item),
                          !.disp = IF In(item, g.base) /\ ~In(item, g.disp)
                                   THEN Append(g.disp, item) ELSE g.disp],
          ret |-> "True"]

\* variant: the selection is emptied and available is left as it is
nueva_cotizacion_conserva_disponibles(g) == [g EXCEPT !.sel = <<>>]

\* variant: the comments are thrown away with the selection
nueva_cotizacion_borra_comentarios(g) ==
    [g EXCEPT !.disp = g.base, !.sel = <<>>, !.com = DictVacio]

nueva_cotizacion(g) == [g EXCEPT !.disp = g.base, !.sel = <<>>]

(* ------------------------------ export -------------------------------- *)
\* the messages of the failure results
MensajeSinOpenpyxl == "El módulo 'openpyxl' no está instalado."
MensajeSinItems == "No hay items en la cotización actual."
\* str(e) of the exception that the construction or the write raised
MensajeError == "str(e)"

\* readings of datetime.now(), in ticks; a minute lasts Minuto ticks
Instantes == 0..MaxInstante
Minuto == 2

\* datetime.now().strftime("%Y%m%d_%H%M"): the reading cut down to its minute
fecha_hora(ahora) == ahora \div Minuto

\* os.path.join(os.getcwd(), f"cotizacion_{fecha_hora}.xlsx")
RutaCompleta(ahora) ==
    [carpeta |-> "os.getcwd()", nombre |-> "cotizacion_",
     fecha_hora |-> fecha_hora(ahora), extension |-> ".xlsx"]

Encabezados == <<"Descripción", "Precio (CRC)", "Categoría">>

\* variant: the total is written over the row of the last entry
Hoja_total_sobre_ultima(g) ==
    LET n == Len(g.sel)
    IN  [fila \in 1..(n + 1) |->
            IF fila = 1 THEN Encabezados
            ELSE IF fila = n + 1 THEN <<"TOTAL:", calcular_total(g), "">>
            ELSE <<g.sel[fila - 1][1], g.sel[fila - 1][2], g.sel[fila - 1][3]>>]

\* the rows of the sheet: the header in row 1, one row per selected entry
\* from row 2 on, and the total row at len(selected) + 2
Hoja(g) ==
    LET n == Len(g.sel)
    IN  [fila \in 1..(n + 2) |->
            IF fila = 1 THEN Encabezados
            ELSE IF fila = n + 2 THEN <<"TOTAL:", calcular_total(g), "">>
            ELSE <<g.sel[fila - 1][1], g.sel[fila - 1][2], g.sel[fila - 1][3]>>]

Fracaso(mensaje, escrito) ==
    [ret |-> [exito |-> FALSE, mensaje |-> mensaje], escrito |-> escrito]

\* variant: the selection is looked at before the capability
exportar_a_excel_revisa_seleccion_primero(g, disponible, res, ahora) ==
    IF g.sel = <<>> THEN Fracaso(MensajeSinItems, SinArchivo)
    ELSE IF ~disponible THEN Fracaso(MensajeSinOpenpyxl, SinArchivo)
    ELSE IF res = "falla_antes" THEN Fracaso(MensajeError, SinArchivo)
    ELSE IF res = "falla_durante" THEN Fracaso(MensajeError, ArchivoParcial)
    ELSE [ret |-> [exito |-> TRUE, archivo |-> RutaCompleta(ahora)],
          escrito |-> Documento(Hoja(g))]

\* variant: an empty selection is exported as a sheet with no entries
exportar_a_excel_sin_revisar_seleccion(g, disponible, res, ahora) ==
    IF ~disponible THEN Fracaso(MensajeSinOpenpyxl, SinArchivo)
    ELSE IF res = "falla_antes" THEN Fracaso(MensajeError, SinArchivo)
    ELSE IF res = "falla_durante" THEN Fracaso(MensajeError, ArchivoParcial)
    ELSE [ret |-> [exito |-> TRUE, archivo |-> RutaCompleta(ahora)],
          escrito |-> Documento(Hoja(g))]

\* variant: success is returned although wb.save raised
exportar_a_excel_exito_sin_escribir(g, disponible, res, ahora) ==
    IF ~disponible THEN Fracaso(MensajeSinOpenpyxl, SinArchivo)
    ELSE IF g.sel = <<>> THEN Fracaso(MensajeSinItems, SinArchivo)
    ELSE IF res = "falla_antes" THEN Fracaso(MensajeError, SinArchivo)
    ELSE IF res = "falla_durante"
    THEN [ret |-> [exito |-> TRUE, archivo |-> RutaCompleta(ahora)],
          escrito |-> ArchivoParcial]
    ELSE [ret |-> [exito |-> TRUE, archivo |-> RutaCompleta(ahora)],
          escrito |-> Documento(Hoja(g))]

\* exportar_a_excel when OPENPYXL_DISPONIBLE is disponible, the work in the
\* try block has outcome res (it succeeds, it raises before wb.save has
\* created the file, or wb.save raises after it did) and the clock reads ahora
exportar_a_excel(g, disponible, res, ahora) ==
    IF ~disponible THEN Fracaso(MensajeSinOpenpyxl, SinArchivo)
    ELSE IF g.sel = <<>> THEN Fracaso(MensajeSinItems, SinArchivo)
    ELSE IF res = "falla_antes" THEN Fracaso(MensajeError, SinArchivo)
    ELSE IF res = "falla_durante" THEN Fracaso(MensajeError, ArchivoParcial)
    ELSE [ret |-> [exito |-> TRUE, archivo |-> RutaCompleta(ahora)],
          escrito |-> Documento(Hoja(g))]


(* -------------------- methods that change the catalog ------------------ *)
\* one pass of the body of cargar_cotizaciones_iniciales (the source holds
\* the same two statements twice, one after the other)
PasoIniciales(e, lista, res) ==
    IF e.g.base # <<>> THEN e
    ELSE IF lista # <<>>
    THEN LET g2 == [e.g EXCEPT !.base = lista, !.disp = lista, !.sel = <<>>]
             r == guardar_cotizaciones_en_json(g2, e.archivo, res)
         IN  [g |-> g2, archivo |-> r.archivo, guardado |-> Guardado(r)]
    ELSE e

\* variant: a list that is given replaces a catalog that is already loaded
cargar_cotizaciones_iniciales_reemplaza(g, f, lista, res) ==
    PasoIniciales([g |-> [g EXCEPT !.base = <<>>], archivo |-> f, guardado |-> "-"],
                  lista, res)

cargar_cotizaciones_iniciales(g, f, lista, res) ==
    LET e0 == [g |-> g, archivo |-> f, guardado |-> "-"]
        e1 == PasoIniciales(e0, lista, res)
    IN  IF e1.g.base # <<>> /\ g.base = <<>>
        THEN e1      \* the first half adopted lista: the method returned at line 172
        ELSE IF g.base # <<>> THEN e0       \* returned at line 160
        ELSE PasoIniciales(e1, lista, res)

\* variant: an identity that base already holds is not appended again
agregar_nueva_cotizacion_base_sin_repetir(g, f, item, res) ==
    LET g2 == IF In(item, g.base) THEN g
              ELSE [g EXCEPT !.base = Append(g.base, item),
                             !.disp = Append(g.disp, item)]
        r == guardar_cotizaciones_en_json(g2, f, res)
    IN  [g |-> g2, archivo |-> r.archivo, ret |-> item, guardado |-> Guardado(r)]

agregar_nueva_cotizacion_base(g, f, item, res) ==
    LET g2 == [g EXCEPT !.base = Append(g.base, item),
                        !.disp = Append(g.disp, item)]
        r == guardar_cotizaciones_en_json(g2, f, res)
    IN  [g |-> g2, archivo |-> r.archivo, ret |-> item, guardado |-> Guardado(r)]

\* variant: the catalog is saved before the comment is assigned
establecer_comentario_guarda_antes(g, f, item, comentario, res) ==
    LET g2 == [g EXCEPT !.com = [g.com EXCEPT ![item] = comentario]]
        r == guardar_cotizaciones_en_json(g, f, res)
    IN  [g |-> g2, archivo |-> r.archivo, ret |-> r.ret, guardado |-> Guardado(r)]

\* self.comentarios.get(item, "")
obtener_comentario(g, item) ==
    IF g.com[item] # SinComentario THEN g.com[item] ELSE ""

\* variant: setting a comment shows the whole catalog again
establecer_comentario_restaura_disponibles(g, f, item, comentario, res) ==
    LET g2 == [g EXCEPT !.com = [g.com EXCEPT ![item] = comentario],
                        !.disp = g.base]
        r == guardar_cotizaciones_en_json(g2, f, res)
    IN  [g |-> g2, archivo |-> r.archivo, ret |-> r.ret, guardado |-> Guardado(r)]

\* variant: a comment is kept only for an identity that is in base
establecer_comentario_solo_en_base(g, f, item, comentario, res) ==
    LET g2 == IF In(item, g.base)
              THEN [g EXCEPT !.com = [g.com EXCEPT ![item] = comentario]]
              ELSE g
        r == guardar_cotizaciones_en_json(g2, f, res)
    IN  [g |-> g2, archivo |-> r.archivo, ret |-> r.ret, guardado |-> Guardado(r)]

establecer_comentario(g, f, item, comentario, res) ==
    LET g2 == [g EXCEPT !.com = [g.com EXCEPT ![item] = comentario]]
        r == guardar_cotizaciones_en_json(g2, f, res)
    IN  [g |-> g2, archivo |-> r.archivo, ret |-> r.ret, guardado |-> Guardado(r)]

\* variant: the entry is taken out of base and stays on offer
eliminar_cotizacion_base_deja_disponible(g, f, item, res) ==
    IF ~In(item, g.base)
    THEN [g |-> g, archivo |-> f, ret |-> "False", guardado |-> "-"]
    ELSE LET g2 == Gestor(Remove(g.base, item),
                          g.disp,
                          IF In(item, g.sel) THEN Remove(g.sel, item) ELSE g.sel,
                          [g.com EXCEPT ![item] = SinComentario])
             r == guardar_cotizaciones_en_json(g2, f, res)
         IN  [g |-> g2, archivo |-> r.archivo, ret |-> "True", guardado |-> Guardado(r)]

\* variant: removing an entry from base empties the selection
eliminar_cotizacion_base_vacia_seleccion(g, f, item, res) ==
    IF ~In(item, g.base)
    THEN [g |-> g, archivo |-> f, ret |-> "False", guardado |-> "-"]
    ELSE LET g2 == Gestor(Remove(g.base, item),
                          IF In(item, g.disp) THEN Remove(g.disp, item) ELSE g.disp,
                          <<>>,
                          [g.com EXCEPT ![item] = SinComentario])
             r == guardar_cotizaciones_en_json(g2, f, res)
         IN  [g |-> g2, archivo |-> r.archivo, ret |-> "True", guardado |-> Guardado(r)]

\* variant: an identity that is not in base is still purged from selected
\* and from the comments, and the catalog is saved
eliminar_cotizacion_base_purga_ausente(g, f, item, res) ==
    LET g2 == Gestor(IF In(item, g.base) THEN Remove(g.base, item) ELSE g.base,
                     IF In(item, g.disp) THEN Remove(g.disp, item) ELSE g.disp,
                     IF In(item, g.sel) THEN Remove(g.sel, item) ELSE g.sel,
                     [g.com EXCEPT ![item] = SinComentario])
        r == guardar_cotizaciones_en_json(g2, f, res)
    IN  [g |-> g2, archivo |-> r.archivo,
         ret |-> IF In(item, g.base) THEN "True" ELSE "False",
         guardado |-> Guardado(r)]

eliminar_cotizacion_base(g, f, item, res) ==
    IF ~In(item, g.base)
    THEN [g |-> g, archivo |-> f, ret |-> "False", guardado |-> "-"]
    ELSE LET g2 == Gestor(Remove(g.base, item),
                          IF In(item, g.disp) THEN Remove(g.disp, item) ELSE g.disp,
                          IF In(item, g.sel) THEN Remove(g.sel, item) ELSE g.sel,
                          [g.com EXCEPT ![item] = SinComentario])
             r == guardar_cotizaciones_en_json(g2, f, res)
         IN  [g |-> g2, archivo |-> r.archivo, ret |-> "True", guardado |-> Guardado(r)]

(* --------------------------- entry point ------------------------------ *)
\* the list of example entries in crear_cotizaciones_iniciales
cotizaciones_ejemplo == <<>>

\* variant: the storage is seeded whether or not the file exists
crear_cotizaciones_iniciales_sobrescribe(f, res1, res2) ==
    LET e == cargar_cotizaciones_iniciales(GestorVacio, f, cotizaciones_ejemplo, res1)
        r == guardar_cotizaciones_en_json(e.g, e.archivo, res2)
    IN  [archivo |-> r.archivo, guardado |-> Guardado(r)]

\* crear_cotizaciones_iniciales with storage f: nothing when the file
\* exists; otherwise a temporary manager is built, given the example list
\* (a save with outcome res1 when it adopts it) and saved (outcome res2)
crear_cotizaciones_iniciales(f, res1, res2) ==
    IF f.estado # "ausente"
    THEN [archivo |-> f, guardado |-> "-"]
    ELSE LET gestor == cargar_cotizaciones_desde_json(GestorVacio, f).g
             e == cargar_cotizaciones_iniciales(gestor, f, cotizaciones_ejemplo, res1)
             r == guardar_cotizaciones_en_json(e.g, e.archivo, res2)
         IN  [archivo |-> r.archivo, guardado |-> Guardado(r)]

(* ------------------------------ actions ------------------------------- *)
\* write outcomes still possible: a run injects at most MaxFallas failing
\* writes (a storage that cannot be opened fails every time, uncounted)
Resultados == IF fallas < MaxFallas THEN ResultadosEscritura ELSE {"ok"}

Contar(guardado) ==
    fallas' = IF guardado = "no" /\ archivo.estado # "ilegible"
              THEN fallas + 1 ELSE fallas

Poner(g) ==
    /\ cotizaciones_base' = g.base
    /\ cotizaciones_disponibles' = g.disp
    /\ cotizaciones_seleccionadas' = g.sel
    /\ comentarios' = g.com

\* The observation variables record facts about the run, not program state.
\* A run records one kind of observation (observa) and leaves the others at
\* their initial value: the last call when it is a call of agregar_a_seleccionadas
\* ("agregar"), of quitar_de_seleccionadas ("quitar"), a construction ("carga"),
\* the method of the last call when it saved successfully ("guardado"), the identities that have been in base ("base"), whether
\* a specific category was filtered ("filtro"), the sets before a move to
\* selected and back ("ida"), the last call when it is one that moves an
\* entry or reads the total ("total"), a filter ("filtrar"), a reading of the
\* categories ("categorias"), an addition to base ("agregar_base"), a removal
\* from base ("eliminar"), a writing or reading of a comment ("comentario"),
\* a method that changes the catalog and whose save failed ("falla"), a move
\* to selected or a removal from base ("escenario"), the
\* last establecer_comentario that saved for as long as only methods that
\* leave base and comentarios alone are called after it ("persistente"), a
\* method that moves entries between available and selected ("particion"), a
\* cargar_cotizaciones_iniciales ("iniciales"), an export ("exportar"), a
\* guardar_cotizaciones_en_json ("guardar"), the name of the method of the
\* last call ("operacion"), a removal from base or a writing of a comment
\* ("duplicados"), the last export that succeeded, whatever is called after
\* it ("colision"), the filter in force ("vigente"), a start of the program
\* ("main").
OpsGuardado == {"guardar", "iniciales", "agregar_base", "comentario", "eliminar"}

\* methods that leave base and comentarios as they are
OpsSinCambio == {"filtrar", "agregar", "quitar", "nueva", "__init__",
                 "calcular_total", "categorias", "obtener_comentario",
                 "exportar"}

\* the methods whose calls a run records in full
Registra(o) ==
    CASE o = "agregar" -> {"agregar"}
      [] o = "quitar" -> {"quitar"}
      [] o = "carga" -> {"__init__"}
      [] o = "total" -> {"agregar", "quitar", "calcular_total"}
      [] o = "filtrar" -> {"filtrar"}
      [] o = "categorias" -> {"categorias"}
      [] o = "agregar_base" -> {"agregar_base"}
      [] o = "eliminar" -> {"eliminar"}
      [] o = "comentario" -> {"comentario", "obtener_comentario"}
      [] o = "escenario" -> {"agregar", "eliminar"}
      [] o = "particion" -> {"agregar", "quitar", "nueva", "filtrar"}
      [] o = "iniciales" -> {"iniciales"}
      [] o = "exportar" -> {"exportar"}
      [] o = "guardar" -> {"guardar"}
      [] o = "duplicados" -> {"eliminar", "comentario"}
      [] o = "main" -> {"main"}
      [] OTHER -> {}

Observada(llamada) ==
    CASE llamada.op \in Registra(observa) -> llamada
      [] observa = "guardado" /\ llamada.op \in OpsGuardado
                                /\ llamada.guardado = "si" ->
            Llamada(llamada.op, NoItem, "-", "si")
      [] observa = "falla" /\ llamada.op \in OpsGuardado \ {"guardar"}
                             /\ llamada.guardado = "no" -> llamada
      [] observa = "persistente" /\ llamada.op = "comentario"
                                   /\ llamada.guardado = "si" -> llamada
      [] observa = "persistente" /\ llamada.op \in OpsSinCambio -> ult
      [] observa = "operacion" -> Llamada(llamada.op, NoItem, "-", "-")
      [] observa = "colision" /\ llamada.op = "exportar" ->
            IF llamada.ret.exito THEN llamada ELSE ult
      [] observa = "colision" -> ult
      [] OTHER -> SinLlamada

\* the filter in force after llamada: a filter sets it; a new quote, a
\* construction and cargar_cotizaciones_iniciales end it; as long as it
\* lasts, anexo tells that a method that appends to available
\* (quitar_de_seleccionadas, agregar_nueva_cotizacion_base) has run and
\* movido that one that takes an entry out of it (agregar_a_seleccionadas,
\* eliminar_cotizacion_base) has
Vigente(llamada) ==
    CASE llamada.op = "filtrar" ->
            [categoria |-> llamada.arg, anexo |-> FALSE, movido |-> FALSE]
      [] llamada.op \in {"nueva", "__init__", "main", "iniciales"} -> SinFiltro
      [] vigente.categoria = "-" -> vigente
      [] llamada.op = "agregar_base" -> [vigente EXCEPT !.anexo = TRUE]
      [] llamada.op = "quitar" /\ llamada.ret = "True" ->
            [vigente EXCEPT !.anexo = TRUE]
      [] llamada.op \in {"agregar", "eliminar"} /\ llamada.ret = "True" ->
            [vigente EXCEPT !.movido = TRUE]
      [] OTHER -> vigente

Observar(llamada, nuevo, especifico, idaNueva) ==
    /\ observa' = observa
    /\ vigente' = IF observa = "vigente" THEN Vigente(llamada) ELSE vigente
    /\ ult' = Observada(llamada)
    /\ alguna_vez_base' =
          IF observa = "base"
          THEN (IF nuevo THEN {} ELSE alguna_vez_base) \cup Conjunto(cotizaciones_base')
          ELSE alguna_vez_base
    /\ filtro_especifico' =
          IF observa = "filtro"
          THEN (IF nuevo THEN FALSE ELSE filtro_especifico \/ especifico)
          ELSE filtro_especifico
    /\ ida' = IF observa = "ida" THEN idaNueva ELSE ida

\* state after GestorCotizaciones() when the storage holds f: __init__
\* empties the four fields and calls the load
Construido(f) ==
    cargar_cotizaciones_desde_json(GestorVacio, f)

\* o: what the run records; falible: whether writes of the storage may fail
\* (the in-memory effect of every method is the same whether or not they do)
InitCon(o, falible) ==
    \E f \in ArchivosIniciales :
        LET r == Construido(f)
        IN  /\ cotizaciones_base = r.g.base
            /\ cotizaciones_disponibles = r.g.disp
            /\ cotizaciones_seleccionadas = r.g.sel
            /\ comentarios = r.g.com
            /\ archivo = f
            /\ fallas = IF falible THEN 0 ELSE MaxFallas
            /\ observa = o
            /\ ult = IF "__init__" \in Registra(o)
                     THEN Llamada("__init__", NoItem, r.ret, "-")
                     ELSE SinLlamada
            /\ alguna_vez_base = IF o = "base" THEN Conjunto(r.g.base) ELSE {}
            /\ filtro_especifico = FALSE
            /\ ida = SinIda
            /\ vigente = SinFiltro

Init == InitCon("agregar", FALSE)

\* a new manager is constructed over the same storage (process restart)
NuevoGestor ==
    LET r == Construido(archivo)
    IN  /\ Poner(r.g)
        /\ Observar(Llamada("__init__", NoItem, r.ret, "-"), TRUE, FALSE, SinIda)
        /\ UNCHANGED <<archivo, fallas>>

GuardarCotizacionesEnJson ==
    \E res \in Resultados :
        LET r == guardar_cotizaciones_en_json(Actual, archivo, res)
        IN  /\ archivo' = r.archivo
            /\ Contar(Guardado(r))
            /\ UNCHANGED <<cotizaciones_base, cotizaciones_disponibles,
                           cotizaciones_seleccionadas, comentarios>>
            /\ Observar(Llamada("guardar", NoItem, r.ret, Guardado(r)),
                        FALSE, FALSE, SinIda)

\* lists a caller may pass (<<>> stands for None and for the empty list)
ListasIniciales == {<<>>, <<ItemA, ItemB>>, <<ItemB, ItemB>>}

CargarCotizacionesIniciales ==
    \E lista \in ListasIniciales, res \in Resultados :
        LET r == cargar_cotizaciones_iniciales(Actual, archivo, lista, res)
        IN  /\ Poner(r.g)
            /\ archivo' = r.archivo
            /\ Contar(r.guardado)
            /\ Observar(LlamadaCon("iniciales", NoItem, lista, "None", r.guardado),
                        FALSE, FALSE, SinIda)

FiltrarDisponiblesPorCategoria ==
    \E categoria \in Categorias :
        LET r == filtrar_disponibles_por_categoria(Actual, categoria)
        IN  /\ Poner(r.g)
            /\ UNCHANGED <<archivo, fallas>>
            /\ Observar(LlamadaCon("filtrar", NoItem, categoria, r.ret, "-"),
                        FALSE, categoria # "Todas", SinIda)

\* the three methods that only read
SinCambio == UNCHANGED <<cotizaciones_base, cotizaciones_disponibles,
                         cotizaciones_seleccionadas, comentarios, archivo, fallas>>

ObtenerCategoriasUnicas ==
    /\ SinCambio
    /\ Observar(Llamada("categorias", NoItem, obtener_categorias_unicas(Actual), "-"),
                FALSE, FALSE, ida)

CalcularTotal ==
    /\ SinCambio
    /\ Observar(Llamada("calcular_total", NoItem, calcular_total(Actual), "-"),
                FALSE, FALSE, ida)

ObtenerComentario ==
    \E item \in Items :
        /\ SinCambio
        /\ Observar(Llamada("obtener_comentario", item,
                            obtener_comentario(Actual, item), "-"),
                    FALSE, FALSE, ida)

\* variant: an export that succeeds starts a new quote
ExportarAExcel_nueva_cotizacion ==
    \E disponible \in BOOLEAN, res \in ResultadosEscritura, ahora \in Instantes :
        LET r == exportar_a_excel(Actual, disponible, res, ahora)
        IN  /\ Poner(IF r.ret.exito THEN nueva_cotizacion(Actual) ELSE Actual)
            /\ UNCHANGED <<archivo, fallas>>
            /\ Observar([LlamadaCon("exportar", NoItem, disponible, r.ret, "-")
                            EXCEPT !.escrito = r.escrito],
                        FALSE, FALSE, ida)

\* the export reads selected and writes a spreadsheet file; the flag that
\* the import at the top of the module sets and the reading of the clock are
\* inputs of the call
ExportarAExcel ==
    \E disponible \in BOOLEAN, res \in ResultadosEscritura, ahora \in Instantes :
        LET r == exportar_a_excel(Actual, disponible, res, ahora)
        IN  /\ SinCambio
            /\ Observar([LlamadaCon("exportar", NoItem, disponible, r.ret, "-")
                            EXCEPT !.escrito = r.escrito],
                        FALSE, FALSE, ida)

AgregarASeleccionadas ==
    \E item \in Items :
        LET r == agregar_a_seleccionadas(Actual, item)
        IN  /\ Poner(r.g)
            /\ UNCHANGED <<archivo, fallas>>
            /\ Observar(Llamada("agregar", item, r.ret, "-"), FALSE, FALSE,
                        IF r.ret = "True"
                        THEN [fase |-> "ida", item |-> item,
                              disp |-> Conjunto(cotizaciones_disponibles),
                              sel |-> Conjunto(cotizaciones_seleccionadas)]
                        ELSE SinIda)

QuitarDeSeleccionadas ==
    \E item \in Items :
        LET r == quitar_de_seleccionadas(Actual, item)
        IN  /\ Poner(r.g)
            /\ UNCHANGED <<archivo, fallas>>
            /\ Observar(Llamada("quitar", item, r.ret, "-"), FALSE, FALSE,
                        IF r.ret = "True" /\ ida.fase = "ida" /\ ida.item = item
                        THEN [ida EXCEPT !.fase = "vuelta"]
                        ELSE SinIda)

NuevaCotizacion ==
    /\ Poner(nueva_cotizacion(Actual))
    /\ UNCHANGED <<archivo, fallas>>
    /\ Observar(Llamada("nueva", NoItem, "None", "-"), FALSE, FALSE, SinIda)

AgregarNuevaCotizacionBase ==
    \E item \in Items, res \in Resultados :
        /\ Len(cotizaciones_base) < MaxBase
        /\ LET r == agregar_nueva_cotizacion_base(Actual, archivo, item, res)
           IN  /\ Poner(r.g)
               /\ archivo' = r.archivo
               /\ Contar(r.guardado)
               /\ Observar(Llamada("agregar_base", item, r.ret, r.guardado),
                           FALSE, FALSE, SinIda)

EstablecerComentario ==
    \E item \in Items, comentario \in Textos, res \in Resultados :
        LET r == establecer_comentario(Actual, archivo, item, comentario, res)
        IN  /\ Poner(r.g)
            /\ archivo' = r.archivo
            /\ Contar(r.guardado)
            /\ Observar(LlamadaCon("comentario", item, comentario, r.ret, r.guardado),
                        FALSE, FALSE, SinIda)

EliminarCotizacionBase ==
    \E item \in Items, res \in Resultados :
        LET r == eliminar_cotizacion_base(Actual, archivo, item, res)
        IN  /\ Poner(r.g)
            /\ archivo' = r.archivo
            /\ Contar(r.guardado)
            /\ Observar(Llamada("eliminar", item, r.ret, r.guardado),
                        FALSE, FALSE, SinIda)

\* the program starts: main() seeds the storage and the window builds its
\* manager, which it gives no initial list
Main ==
    \E res1 \in Resultados, res2 \in Resultados :
        LET c == crear_cotizaciones_iniciales(archivo, res1, res2)
            r == Construido(c.archivo)
            e == cargar_cotizaciones_iniciales(r.g, c.archivo, <<>>, "ok")
        IN  /\ Poner(e.g)
            /\ archivo' = e.archivo
            /\ Contar(c.guardado)
            /\ Observar(LlamadaCon("main", NoItem, archivo.estado # "ausente",
                                   r.ret, c.guardado),
                        TRUE, FALSE, SinIda)

Next ==
    \/ Main
    \/ NuevoGestor
    \/ GuardarCotizacionesEnJson
    \/ CargarCotizacionesIniciales
    \/ FiltrarDisponiblesPorCategoria
    \/ AgregarASeleccionadas
    \/ QuitarDeSeleccionadas
    \/ NuevaCotizacion
    \/ AgregarNuevaCotizacionBase
    \/ EstablecerComentario
    \/ EliminarCotizacionBase
    \/ ObtenerCategoriasUnicas
    \/ CalcularTotal
    \/ ObtenerComentario
    \/ ExportarAExcel

\* runs that record the last call of agregar_a_seleccionadas
Spec == Init /\ [][Next]_vars
\* runs that record the last call of quitar_de_seleccionadas
SpecQuitar == InitCon("quitar", FALSE) /\ [][Next]_vars
\* runs that record the last call that saves
SpecGuardado == InitCon("guardado", TRUE) /\ [][Next]_vars
\* runs that record the last construction
SpecCarga == InitCon("carga", TRUE) /\ [][Next]_vars
\* runs that record the identities that have been in base
SpecBase == InitCon("base", FALSE) /\ [][Next]_vars
\* runs that record whether a specific category was filtered
SpecFiltro == InitCon("filtro", FALSE) /\ [][Next]_vars
\* runs that record the sets before a move to selected and back
SpecIda == InitCon("ida", FALSE) /\ [][Next]_vars
\* runs that record the moves between available and selected and the totals
SpecTotal == InitCon("total", FALSE) /\ [][Next]_vars
\* runs that record the last call of filtrar_disponibles_por_categoria
SpecFiltrar == InitCon("filtrar", FALSE) /\ [][Next]_vars
\* runs that record the last call of obtener_categorias_unicas
SpecCategorias == InitCon("categorias", FALSE) /\ [][Next]_vars
\* runs that record the last call of agregar_nueva_cotizacion_base
SpecAgregarBase == InitCon("agregar_base", TRUE) /\ [][Next]_vars
\* runs that record the last call of eliminar_cotizacion_base
SpecEliminar == InitCon("eliminar", TRUE) /\ [][Next]_vars
\* runs that record the last call that sets or reads a comment
SpecComentario == InitCon("comentario", FALSE) /\ [][Next]_vars
\* runs that record the last change of the catalog whose save failed
SpecFalla == InitCon("falla", TRUE) /\ [][Next]_vars
\* runs that record the moves to selected and the removals from base
SpecEscenario == InitCon("escenario", FALSE) /\ [][Next]_vars
\* runs that record the last comment that was set and saved
SpecPersistente == InitCon("persistente", FALSE) /\ [][Next]_vars
\* runs that record the moves between available and selected, the filters
\* and the new quotes
SpecParticion == InitCon("particion", FALSE) /\ [][Next]_vars
\* runs that record the last call of cargar_cotizaciones_iniciales
SpecIniciales == InitCon("iniciales", FALSE) /\ [][Next]_vars
\* runs that record the last export
SpecExportar == InitCon("exportar", FALSE) /\ [][Next]_vars
\* runs that record the last call of guardar_cotizaciones_en_json
SpecGuardar == InitCon("guardar", TRUE) /\ [][Next]_vars
\* runs that record which method was called last
SpecOperacion == InitCon("operacion", FALSE) /\ [][Next]_vars
\* runs that record the removals from base and the comments that are set
SpecDuplicados == InitCon("duplicados", FALSE) /\ [][Next]_vars
\* runs that record the last export that succeeded
SpecColision == InitCon("colision", FALSE) /\ [][Next]_vars
\* runs that record the filter in force
SpecVigente == InitCon("vigente", FALSE) /\ [][Next]_vars
\* runs that record the last start of the program
SpecMain == InitCon("main", TRUE) /\ [][Next]_vars

TypeOK ==
    /\ Len(cotizaciones_base) <= MaxBase + 1
    /\ archivo.estado \in {"ausente", "corrupto", "ilegible", "ok"}
    /\ fallas \in 0..MaxFallas

(* ------------------------------ claims -------------------------------- *)
Disponibles == Conjunto(cotizaciones_disponibles)
Seleccionadas == Conjunto(cotizaciones_seleccionadas)
Base == Conjunto(cotizaciones_base)

\* C1 (as stated): in every reachable state no identity is both in
\* cotizaciones_disponibles and in cotizaciones_seleccionadas.
C1_Disjuntas == Disponibles \cap Seleccionadas = {}

\* C2 (as stated): as long as no specific category has been filtered, the
\* identities of available together with those of selected are exactly the
\* identities of base.
C2_UnionEsBase ==
    ~filtro_especifico => Disponibles \cup Seleccionadas = Base

\* C3 (as stated): every element of selected is in base now or was in base
\* at an earlier state of this manager.
C3_SeleccionadasDeBase == Seleccionadas \subseteq alguna_vez_base

\* C4: right after agregar_nueva_cotizacion_base, eliminar_cotizacion_base,
\* establecer_comentario or an adopting cargar_cotizaciones_iniciales whose
\* save succeeded, the storage file is a list with one record per element of
\* base, in base order, and each record's comentario is the comment mapped to
\* that identity, or "" when none is mapped.
C4_Persistido ==
    (ult.op \in {"agregar_base", "eliminar", "comentario", "iniciales"}
        /\ ult.guardado = "si")
    => /\ archivo.estado = "ok"
       /\ Len(archivo.registros) = Len(cotizaciones_base)
       /\ \A i \in 1..Len(cotizaciones_base) :
            LET r == archivo.registros[i]
                item == cotizaciones_base[i]
            IN  /\ r.faltan = {}
                /\ <<r.nombre, r.precio, r.categoria>> = item
                /\ r.comentario = IF comentarios[item] = SinComentario THEN ""
                                  ELSE comentarios[item]

C4_Testigo ==
    /\ ult.op = "comentario" /\ ult.guardado = "si"
    /\ Len(cotizaciones_base) = 2
    /\ comentarios[cotizaciones_base[1]] = SinComentario
    /\ comentarios[cotizaciones_base[2]] = "c1"

\* C5: right after a save that succeeded, a manager constructed from the
\* storage has the same base (same entries, same order), gives the same
\* comment for every entry of base, and has nothing selected, whatever
\* available and selected are in the manager that saved.
C5_IdaYVueltaJson ==
    ult.guardado = "si"
    => LET nuevo == Construido(archivo).g
       IN  /\ nuevo.base = cotizaciones_base
           /\ \A i \in 1..Len(cotizaciones_base) :
                obtener_comentario(nuevo, cotizaciones_base[i])
                    = obtener_comentario(Actual, cotizaciones_base[i])
           /\ nuevo.sel = <<>>

C5_Testigo ==
    /\ ult.guardado = "si"
    /\ cotizaciones_seleccionadas # <<>>
    /\ cotizaciones_disponibles # cotizaciones_base
    /\ \E i, j \in 1..Len(cotizaciones_base) :
          /\ comentarios[cotizaciones_base[i]] = "c1"
          /\ comentarios[cotizaciones_base[j]] = ""

\* the storage holds a JSON list whose objects all have the required keys
Cargable(f) ==
    /\ f.estado = "ok"
    /\ \A i \in 1..Len(f.registros) :
          f.registros[i].faltan \cap {"nombre", "precio", "categoria"} = {}

\* C6: a manager constructed over a storage file that exists and parses has
\* the file's records as base, in file order, a comment mapped for exactly
\* the identities that have a record with a non-empty comentario (the last
\* such record gives the text), available equal to base, and selected empty.
C6_CargaCorrecta ==
    (ult.op = "__init__" /\ Cargable(archivo))
    => LET regs == archivo.registros
           ConTexto(item) ==
               {i \in 1..Len(regs) :
                   /\ <<regs[i].nombre, regs[i].precio, regs[i].categoria>> = item
                   /\ "comentario" \notin regs[i].faltan
                   /\ regs[i].comentario # ""}
       IN  /\ Len(cotizaciones_base) = Len(regs)
           /\ \A i \in 1..Len(regs) :
                cotizaciones_base[i]
                    = <<regs[i].nombre, regs[i].precio, regs[i].categoria>>
           /\ \A item \in Items :
                IF ConTexto(item) = {}
                THEN comentarios[item] = SinComentario
                ELSE comentarios[item]
                        = regs[CHOOSE i \in ConTexto(item) :
                                    \A j \in ConTexto(item) : j <= i].comentario
           /\ cotizaciones_disponibles = cotizaciones_base
           /\ cotizaciones_seleccionadas = <<>>
           /\ ult.ret = "True"

C6_Testigo ==
    /\ ult.op = "__init__" /\ Cargable(archivo)
    /\ Len(archivo.registros) = 2
    /\ \E i, j \in 1..2 :
          /\ archivo.registros[i].comentario = "c1"
          /\ archivo.registros[j].comentario = ""
    /\ fallas > 0

\* C7: constructing a manager over a storage that is absent, malformed or
\* unreadable returns normally with base, available, selected and comments
\* all empty, and leaves the storage as it was.
C7_CargaFallida ==
    /\ []((ult.op = "__init__" /\ ~Cargable(archivo))
            => /\ cotizaciones_base = <<>>
               /\ cotizaciones_disponibles = <<>>
               /\ cotizaciones_seleccionadas = <<>>
               /\ comentarios = [i \in Items |-> SinComentario]
               /\ ult.ret = (IF archivo.estado = "ausente" THEN "True"
                             ELSE "False"))
    /\ [][ult'.op = "__init__" => archivo' = archivo]_vars

C7_Testigo ==
    /\ ult.op = "__init__" /\ ult.ret = "False"
    /\ archivo.estado = "corrupto"
    /\ fallas > 0
    /\ cotizaciones_base = <<>> /\ cotizaciones_disponibles = <<>>

\* C8 (as stated): agregar_a_seleccionadas(item) returns False and changes
\* nothing when item is already selected; otherwise it returns True, item
\* becomes the last element of selected behind the earlier ones, and item is
\* no longer in available.
C8_Agregar ==
    [][ult'.op = "agregar"
        => LET item == ult'.item
           IN  IF In(item, cotizaciones_seleccionadas)
               THEN /\ ult'.ret = "False"
                    /\ UNCHANGED <<cotizaciones_base, cotizaciones_disponibles,
                                   cotizaciones_seleccionadas, comentarios>>
               ELSE /\ ult'.ret = "True"
                    /\ cotizaciones_seleccionadas'
                          = Append(cotizaciones_seleccionadas, item)
                    /\ ~In(item, cotizaciones_disponibles')]_vars

\* C9: quitar_de_seleccionadas(item) returns False and changes nothing when
\* item is not selected; otherwise it returns True, item is no longer in
\* selected (the others keep their order), and item is appended to available
\* exactly when it is in base and was not in available, so that an item of
\* base is in available afterwards and an item not in base is not added.
C9_Quitar ==
    [][ult'.op = "quitar"
        => LET item == ult'.item
               Otro(x) == x # item
           IN  IF ~In(item, cotizaciones_seleccionadas)
               THEN /\ ult'.ret = "False"
                    /\ UNCHANGED <<cotizaciones_base, cotizaciones_disponibles,
                                   cotizaciones_seleccionadas, comentarios, archivo>>
               ELSE /\ ult'.ret = "True"
                    /\ ~In(item, cotizaciones_seleccionadas')
                    /\ cotizaciones_seleccionadas'
                          = SelectSeq(cotizaciones_seleccionadas, Otro)
                    /\ cotizaciones_disponibles' =
                          IF In(item, cotizaciones_base)
                                /\ ~In(item, cotizaciones_disponibles)
                          THEN Append(cotizaciones_disponibles, item)
                          ELSE cotizaciones_disponibles
                    /\ In(item, cotizaciones_base)
                          => In(item, cotizaciones_disponibles')
                    /\ UNCHANGED <<cotizaciones_base, comentarios, archivo>>]_vars

C9_Testigo ==
    /\ ult.op = "quitar" /\ ult.ret = "True"
    /\ ~In(ult.item, cotizaciones_base)
    /\ ~In(ult.item, cotizaciones_disponibles)
    /\ cotizaciones_base # <<>>

\* C10 (as stated): after a successful agregar_a_seleccionadas(item) followed
\* by quitar_de_seleccionadas(item), available and selected hold the same
\* sets of identities as before the two calls, for any entry.
C10_Original ==
    ida.fase = "vuelta"
    => (Disponibles = ida.disp /\ Seleccionadas = ida.sel)

\* C10 (amended): the same, for an entry that was in available before the
\* two calls or that is not in base.
C10_IdaYVuelta ==
    (ida.fase = "vuelta"
        /\ (ida.item \in ida.disp \/ ~In(ida.item, cotizaciones_base)))
    => (Disponibles = ida.disp /\ Seleccionadas = ida.sel)

C10_Testigo ==
    /\ ida.fase = "vuelta"
    /\ ida.item \in ida.disp
    /\ ida.sel # {}
    /\ Len(cotizaciones_disponibles) >= 2

\* the total as calcular_total computes it in the current state
Total == calcular_total(Actual)

\* C11: calcular_total returns the sum of the prices of the entries of
\* selected (0 when there is none) and changes no state; a successful
\* agregar_a_seleccionadas(X) raises the total by X's price and a successful
\* quitar_de_seleccionadas(X) lowers it by X's price.
C11_Total ==
    /\ [](ult.op = "calcular_total"
            => ult.ret = ItemA[2] * Cardinality({i \in 1..Len(cotizaciones_seleccionadas) :
                                                    cotizaciones_seleccionadas[i] = ItemA})
                       + ItemB[2] * Cardinality({i \in 1..Len(cotizaciones_seleccionadas) :
                                                    cotizaciones_seleccionadas[i] = ItemB}))
    /\ [][ult'.op = "calcular_total"
            => UNCHANGED <<cotizaciones_base, cotizaciones_disponibles,
                           cotizaciones_seleccionadas, comentarios, archivo>>]_vars
    /\ [][(ult'.op = "agregar" /\ ult'.ret = "True")
            => Total' = Total + ult'.item[2]]_vars
    /\ [][(ult'.op = "quitar" /\ ult'.ret = "True")
            => Total' = Total - ult'.item[2]]_vars

C11_Testigo ==
    /\ ult.op = "calcular_total" /\ ult.ret = 30
    /\ Len(cotizaciones_seleccionadas) = 2
    /\ cotizaciones_disponibles # <<>>


\* C12: filtrar_disponibles_por_categoria(c) makes available the entries of
\* base, in base order, whose category is c (any category when c is "Todas")
\* and that are not in selected, returns that list, and changes nothing else.
C12_Filtrar ==
    [][ult'.op = "filtrar"
        => LET c == ult'.arg
               Pasa(e) == /\ (c = "Todas" \/ e[3] = c)
                          /\ e \notin Seleccionadas
           IN  /\ cotizaciones_disponibles' = SelectSeq(cotizaciones_base, Pasa)
               /\ ult'.ret = cotizaciones_disponibles'
               /\ (\A i \in 1..Len(cotizaciones_base) : cotizaciones_base[i][3] # c
                                                          /\ c # "Todas")
                     => cotizaciones_disponibles' = <<>>
               /\ UNCHANGED <<cotizaciones_base, cotizaciones_seleccionadas,
                              comentarios, archivo>>]_vars

C12_Testigo ==
    /\ ult.op = "filtrar" /\ ult.arg = "Todas"
    /\ Len(cotizaciones_base) = 2
    /\ Len(ult.ret) = 1
    /\ Seleccionadas \cap Base # {}

\* a < b for category strings
MenorCategoria(a, b) ==
    \E i, j \in 1..Len(OrdenCategorias) :
        i < j /\ OrdenCategorias[i] = a /\ OrdenCategorias[j] = b

\* C13: obtener_categorias_unicas returns the categories that occur in
\* cotizaciones_base, each once, in ascending order, whatever available and
\* selected hold, and changes no state.
C13_Categorias ==
    /\ [](ult.op = "categorias"
            => /\ Conjunto(ult.ret) = {e[3] : e \in Base}
               /\ \A i, j \in 1..Len(ult.ret) :
                     i < j => MenorCategoria(ult.ret[i], ult.ret[j]))
    /\ [][ult'.op = "categorias"
            => UNCHANGED <<cotizaciones_base, cotizaciones_disponibles,
                           cotizaciones_seleccionadas, comentarios, archivo>>]_vars

C13_Testigo ==
    /\ ult.op = "categorias" /\ Len(ult.ret) = 2
    /\ cotizaciones_base = <<ItemB, ItemA>>
    /\ cotizaciones_disponibles = <<>>
    /\ cotizaciones_seleccionadas = <<ItemB>>

\* C14: agregar_nueva_cotizacion_base(n, p, c) appends (n, p, c) at the end
\* of base and of available, leaves selected and comments as they are,
\* returns (n, p, c), and attempts one save; when the write succeeds the
\* storage holds one record per entry of the new base, in base order. This
\* holds also when the identity is already in base.
C14_AgregarBase ==
    [][ult'.op = "agregar_base"
        => LET item == ult'.item
           IN  /\ cotizaciones_base' = Append(cotizaciones_base, item)
               /\ cotizaciones_disponibles' = Append(cotizaciones_disponibles, item)
               /\ UNCHANGED <<cotizaciones_seleccionadas, comentarios>>
               /\ ult'.ret = item
               /\ ult'.guardado \in {"si", "no"}
               /\ ult'.guardado = "si"
                     => /\ archivo'.estado = "ok"
                        /\ Len(archivo'.registros) = Len(cotizaciones_base) + 1
                        /\ \A i \in 1..Len(archivo'.registros) :
                              LET r == archivo'.registros[i]
                              IN  <<r.nombre, r.precio, r.categoria>>
                                      = Append(cotizaciones_base, item)[i]]_vars

C14_Testigo ==
    /\ ult.op = "agregar_base" /\ ult.guardado = "si"
    /\ cotizaciones_base = <<ult.item, ult.item>>
    /\ cotizaciones_seleccionadas # <<>>
    /\ archivo.estado = "ok"

\* C15 (as stated): after eliminar_cotizacion_base(item) returns True, item
\* is in none of base, available and selected, it has no comment, and, the
\* write having succeeded, the storage has no record with item's identity.
C15_Eliminar ==
    (ult.op = "eliminar" /\ ult.ret = "True")
    => /\ ~In(ult.item, cotizaciones_base)
       /\ ~In(ult.item, cotizaciones_disponibles)
       /\ ~In(ult.item, cotizaciones_seleccionadas)
       /\ comentarios[ult.item] = SinComentario
       /\ obtener_comentario(Actual, ult.item) = ""
       /\ ult.guardado = "si"
             => /\ archivo.estado = "ok"
                /\ \A i \in 1..Len(archivo.registros) :
                      LET r == archivo.registros[i]
                      IN  <<r.nombre, r.precio, r.categoria>> # ult.item

\* C16: eliminar_cotizacion_base(item) for an identity that is not in base
\* returns False, makes no save, and leaves base, available, selected, the
\* comments and the storage as they were, also when item is selected or has
\* a comment.
C16_EliminarAusente ==
    [][(ult'.op = "eliminar" /\ ~In(ult'.item, cotizaciones_base))
        => /\ ult'.ret = "False"
           /\ ult'.guardado = "-"
           /\ UNCHANGED <<cotizaciones_base, cotizaciones_disponibles,
                          cotizaciones_seleccionadas, comentarios, archivo,
                          fallas>>]_vars

C16_Testigo ==
    /\ ult.op = "eliminar" /\ ult.ret = "False"
    /\ In(ult.item, cotizaciones_seleccionadas)
    /\ comentarios[ult.item] = "c1"
    /\ cotizaciones_base # <<>>

\* the first step of the scenario: with base = [A, B] all available, A is
\* moved to selected and the total is 10
C17_Mover ==
    [][(/\ cotizaciones_base = <<ItemA, ItemB>>
        /\ cotizaciones_disponibles = <<ItemA, ItemB>>
        /\ cotizaciones_seleccionadas = <<>>
        /\ ult'.op = "agregar" /\ ult'.item = ItemA)
        => /\ ult'.ret = "True"
           /\ cotizaciones_base' = <<ItemA, ItemB>>
           /\ cotizaciones_disponibles' = <<ItemB>>
           /\ cotizaciones_seleccionadas' = <<ItemA>>
           /\ Total' = 10]_vars

\* the state the first step of the scenario leaves
C17_Movido ==
    /\ cotizaciones_base = <<ItemA, ItemB>>
    /\ cotizaciones_disponibles = <<ItemB>>
    /\ cotizaciones_seleccionadas = <<ItemA>>

\* C17 (as stated): from base = [A, B] all available, moving A to selected
\* gives total 10; removing B from base then gives base = [A], available = [],
\* selected = [A], and the total becomes 0.
C17_Original ==
    /\ C17_Mover
    /\ [][(C17_Movido /\ ult'.op = "eliminar" /\ ult'.item = ItemB)
            => /\ ult'.ret = "True"
               /\ cotizaciones_base' = <<ItemA>>
               /\ cotizaciones_disponibles' = <<>>
               /\ cotizaciones_seleccionadas' = <<ItemA>>
               /\ Total' = 0]_vars

\* C17 (amended): the same scenario, where the total stays 10 after B is
\* removed from base, selected still holding A.
C17_Escenario ==
    /\ C17_Mover
    /\ [][(C17_Movido /\ ult'.op = "eliminar" /\ ult'.item = ItemB)
            => /\ ult'.ret = "True"
               /\ cotizaciones_base' = <<ItemA>>
               /\ cotizaciones_disponibles' = <<>>
               /\ cotizaciones_seleccionadas' = <<ItemA>>
               /\ Total' = 10]_vars

C17_Testigo ==
    /\ ult.op = "eliminar" /\ ult.item = ItemB /\ ult.ret = "True"
    /\ cotizaciones_base = <<ItemA>>
    /\ cotizaciones_disponibles = <<>>
    /\ cotizaciones_seleccionadas = <<ItemA>>
    /\ Total = 10

\* what obtener_comentario gives for item in the current state
ComentarioDe(item) == obtener_comentario(Actual, item)

\* C18: after establecer_comentario(id, text), for an identity in base or
\* not, obtener_comentario(id) gives text, and a call of obtener_comentario(id)
\* that follows returns text; obtener_comentario returns "" for an identity
\* with no mapped comment and changes no state.
C18_Comentarios ==
    /\ [][ult'.op = "comentario"
            => \A item \in Items :
                  ult'.item = item => ComentarioDe(item)' = ult'.arg]_vars
    /\ [][(ult.op = "comentario" /\ ult'.op = "obtener_comentario"
                /\ ult'.item = ult.item)
            => ult'.ret = ult.arg]_vars
    /\ [][ult'.op = "obtener_comentario"
            => /\ comentarios[ult'.item] = SinComentario => ult'.ret = ""
               /\ comentarios[ult'.item] # SinComentario
                     => ult'.ret = comentarios[ult'.item]
               /\ UNCHANGED <<cotizaciones_base, cotizaciones_disponibles,
                              cotizaciones_seleccionadas, comentarios,
                              archivo>>]_vars

C18_Testigo ==
    /\ ult.op = "obtener_comentario" /\ ult.ret = "c1"
    /\ ~In(ult.item, cotizaciones_base)
    /\ \E otro \in Items : comentarios[otro] = SinComentario

\* C19 (as stated): a comment that establecer_comentario(id, text) set and
\* saved is still what obtener_comentario(id) gives after any sequence of
\* filters, moves between available and selected, new quotes, readings and
\* reloads of the catalog from storage, for every identity.
C19_ComentarioPersiste ==
    ult.op = "comentario" => ComentarioDe(ult.item) = ult.arg

\* the outcome of the call recorded in llamada, made in the current state,
\* had its save succeeded on a writable storage
ConExito(llamada) ==
    CASE llamada.op = "agregar_base" ->
            agregar_nueva_cotizacion_base(Actual, ArchivoAusente, llamada.item, "ok")
      [] llamada.op = "eliminar" ->
            eliminar_cotizacion_base(Actual, ArchivoAusente, llamada.item, "ok")
      [] llamada.op = "comentario" ->
            establecer_comentario(Actual, ArchivoAusente, llamada.item,
                                  llamada.arg, "ok")
      [] llamada.op = "iniciales" ->
            [g |-> cargar_cotizaciones_iniciales(Actual, ArchivoAusente,
                                                 llamada.arg, "ok").g,
             ret |-> "None"]

\* C20 (as stated): when the save made by agregar_nueva_cotizacion_base,
\* eliminar_cotizacion_base, establecer_comentario or
\* cargar_cotizaciones_iniciales fails, the caller is told (the call does not
\* return what it returns when the save succeeds) and the change made in
\* memory is kept as if the save had succeeded.
C20_FallaInformada ==
    [][ult'.op \in {"agregar_base", "eliminar", "comentario", "iniciales"}
        => /\ ult'.guardado = "no"
           /\ ult'.ret # ConExito(ult').ret
           /\ Actual' = ConExito(ult').g]_vars

\* C21: nueva_cotizacion makes available a copy of base (same entries, same
\* order), empties selected, and leaves base, the comments and the storage
\* as they were.
C21_NuevaCotizacion ==
    [][ult'.op = "nueva"
        => /\ cotizaciones_disponibles' = cotizaciones_base
           /\ Len(cotizaciones_disponibles') = Len(cotizaciones_base')
           /\ cotizaciones_seleccionadas' = <<>>
           /\ UNCHANGED <<cotizaciones_base, comentarios, archivo>>]_vars

C21_Testigo ==
    /\ ult.op = "nueva"
    /\ cotizaciones_disponibles = <<ItemB, ItemA>>
    /\ \E item \in Items : comentarios[item] = "c1"

\* C22: agregar_a_seleccionadas, quitar_de_seleccionadas, nueva_cotizacion
\* and filtrar_disponibles_por_categoria never write the storage and never
\* change base or the comments.
C22_ParticionNoPersiste ==
    [][ult'.op \in {"agregar", "quitar", "nueva", "filtrar"}
        => UNCHANGED <<archivo, cotizaciones_base, comentarios>>]_vars

C22_Testigo ==
    /\ ult.op = "quitar" /\ ult.ret = "True"
    /\ archivo.estado = "ok" /\ Len(archivo.registros) = 2
    /\ cotizaciones_seleccionadas # <<>>
    /\ Len(cotizaciones_disponibles) < Len(cotizaciones_base)
    /\ \E item \in Items : comentarios[item] = "c1"

\* C23: cargar_cotizaciones_iniciales(lista) changes nothing and saves
\* nothing when base is not empty, and when base is empty and lista is
\* missing or empty; when base is empty and lista is not, base becomes lista,
\* available a copy of it, selected empty, the comments stay, and one save is
\* attempted, which, on success, leaves one record per entry of lista, in
\* order, in the storage.
C23_Iniciales ==
    [][ult'.op = "iniciales"
        => LET lista == ult'.arg
           IN  IF cotizaciones_base # <<>> \/ lista = <<>>
               THEN /\ ult'.guardado = "-"
                    /\ UNCHANGED <<cotizaciones_base, cotizaciones_disponibles,
                                   cotizaciones_seleccionadas, comentarios,
                                   archivo>>
               ELSE /\ cotizaciones_base' = lista
                    /\ cotizaciones_disponibles' = lista
                    /\ cotizaciones_seleccionadas' = <<>>
                    /\ UNCHANGED comentarios
                    /\ ult'.guardado \in {"si", "no"}
                    /\ ult'.guardado = "si"
                          => /\ archivo'.estado = "ok"
                             /\ Len(archivo'.registros) = Len(lista)
                             /\ \A i \in 1..Len(lista) :
                                   LET r == archivo'.registros[i]
                                   IN  <<r.nombre, r.precio, r.categoria>>
                                           = lista[i]]_vars

C23_Testigo ==
    /\ ult.op = "iniciales" /\ ult.guardado = "si"
    /\ ult.arg = <<ItemB, ItemB>>
    /\ cotizaciones_base = <<ItemB, ItemB>>
    /\ comentarios[ItemA] = "c1"

\* C24: when OPENPYXL_DISPONIBLE is False, exportar_a_excel returns a failure
\* result whose message names the missing module and writes no file,
\* whatever selected holds, and changes no state.
C24_SinCapacidad ==
    [][(ult'.op = "exportar" /\ ~ult'.arg)
        => /\ ~ult'.ret.exito
           /\ ult'.ret.mensaje = MensajeSinOpenpyxl
           /\ ult'.escrito.estado = "ninguno"]_vars

C24_Testigo ==
    /\ ult.op = "exportar" /\ ~ult.arg
    /\ Len(cotizaciones_seleccionadas) = 2

\* C25 (as stated): whenever selected is empty, exportar_a_excel returns a
\* failure result with the empty-selection message, which is not the message
\* of the missing capability, and writes no file.
C25_Original ==
    [][(ult'.op = "exportar" /\ cotizaciones_seleccionadas = <<>>)
        => /\ ~ult'.ret.exito
           /\ ult'.ret.mensaje = MensajeSinItems
           /\ ult'.ret.mensaje # MensajeSinOpenpyxl
           /\ ult'.escrito.estado = "ninguno"]_vars

\* C25 (amended): the same, when the capability is present.
C25_SeleccionVacia ==
    [][(ult'.op = "exportar" /\ ult'.arg /\ cotizaciones_seleccionadas = <<>>)
        => /\ ~ult'.ret.exito
           /\ ult'.ret.mensaje = MensajeSinItems
           /\ ult'.ret.mensaje # MensajeSinOpenpyxl
           /\ ult'.escrito.estado = "ninguno"]_vars

C25_Testigo ==
    /\ ult.op = "exportar" /\ ult.arg
    /\ cotizaciones_seleccionadas = <<>>
    /\ cotizaciones_disponibles # <<>>
    /\ ult.ret.mensaje = MensajeSinItems

\* C26: with the capability present and selected not empty, exportar_a_excel
\* either fails with the error's message or returns exito True with the path
\* of an .xlsx file and has written a sheet with the header in row 1, one
\* row (name, price, category) per entry of selected in selected's order
\* from row 2 on, and the total of the selected prices in the row at
\* len(selected) + 2, which is the last one.
C26_Documento ==
    [][(ult'.op = "exportar" /\ ult'.arg /\ cotizaciones_seleccionadas # <<>>)
        => \/ ~ult'.ret.exito /\ ult'.ret.mensaje = MensajeError
           \/ LET sel == cotizaciones_seleccionadas
                   filas == ult'.escrito.filas
                   Veces(item) == Cardinality({i \in 1..Len(sel) : sel[i] = item})
               IN  /\ ult'.ret.exito
                   /\ ult'.ret.archivo.extension = ".xlsx"
                   /\ ult'.escrito.estado = "completo"
                   /\ Len(filas) = Len(sel) + 2
                   /\ filas[1] = <<"Descripción", "Precio (CRC)", "Categoría">>
                   /\ \A i \in 1..Len(sel) : filas[i + 1] = sel[i]
                   /\ filas[Len(sel) + 2][1] = "TOTAL:"
                   /\ filas[Len(sel) + 2][2]
                         = ItemA[2] * Veces(ItemA) + ItemB[2] * Veces(ItemB)
                   /\ filas[Len(sel) + 2][2] = Total]_vars

C26_Testigo ==
    /\ ult.op = "exportar" /\ ult.ret.exito
    /\ cotizaciones_seleccionadas = <<ItemB, ItemA>>
    /\ ult.escrito.filas[2][1] = "B"
    /\ ult.escrito.filas[4][2] = 30

\* C27: every call of exportar_a_excel returns a result with an exito flag;
\* the flag is True only if the file was written in full, and a call whose
\* construction or write fails returns exito False with the error's message.
C27_ExportarNoLanza ==
    [][ult'.op = "exportar"
        => /\ ult'.ret.exito \in BOOLEAN
           /\ ult'.ret.exito => ult'.escrito.estado = "completo"
           /\ ult'.escrito.estado = "parcial"
                 => ~ult'.ret.exito /\ ult'.ret.mensaje = MensajeError
           /\ ~ult'.ret.exito
                 => ult'.ret.mensaje \in {MensajeSinOpenpyxl, MensajeSinItems,
                                          MensajeError}]_vars

C27_Testigo ==
    /\ ult.op = "exportar" /\ ~ult.ret.exito
    /\ ult.escrito.estado = "parcial"
    /\ ult.ret.mensaje = MensajeError

\* C28 (as stated): nueva_cotizacion, agregar_nueva_cotizacion_base,
\* eliminar_cotizacion_base, establecer_comentario,
\* cargar_cotizaciones_iniciales, calcular_total and exportar_a_excel leave
\* available unchanged.
C28_Original ==
    [][ult'.op \in {"nueva", "agregar_base", "eliminar", "comentario",
                    "iniciales", "calcular_total", "exportar"}
        => UNCHANGED cotizaciones_disponibles]_vars

\* C28 (amended): establecer_comentario, calcular_total, exportar_a_excel,
\* obtener_comentario, obtener_categorias_unicas and
\* guardar_cotizaciones_en_json leave available unchanged, and so does
\* cargar_cotizaciones_iniciales when base is not empty or no list is given.
C28_DisponiblesSinCambio ==
    [][(\/ ult'.op \in {"comentario", "calcular_total", "exportar",
                         "obtener_comentario", "categorias", "guardar"}
        \/ ult'.op = "iniciales" /\ cotizaciones_base # <<>>)
        => UNCHANGED cotizaciones_disponibles]_vars

C28_Testigo ==
    /\ ult.op = "comentario"
    /\ cotizaciones_disponibles = <<ItemB>>
    /\ cotizaciones_base = <<ItemA, ItemB>>
    /\ cotizaciones_seleccionadas = <<>>

\* C29 (as stated): guardar_cotizaciones_en_json either replaces the storage
\* content in full and returns True, or returns False and leaves a storage
\* that held a loadable catalog with the content it had.
C29_GuardadoAtomico ==
    [][ult'.op = "guardar"
        => IF ult'.ret = "True"
           THEN /\ archivo'.estado = "ok"
                /\ Len(archivo'.registros) = Len(cotizaciones_base)
           ELSE Cargable(archivo) => archivo' = archivo]_vars

\* C30: a guardar_cotizaciones_en_json that succeeds leaves in the storage
\* exactly one record per entry of base, in base order, with the four keys,
\* the entry's fields and its comment ("" when it has none), whatever the
\* storage held before; so no record is written for an identity that is not
\* in base, even if it has a comment; and no in-memory field changes.
C30_GuardadoCompleto ==
    [][(ult'.op = "guardar" /\ ult'.ret = "True")
        => /\ archivo'.estado = "ok"
           /\ DOMAIN archivo'.registros = DOMAIN cotizaciones_base
           /\ \A i \in DOMAIN cotizaciones_base :
                 archivo'.registros[i]
                    = [nombre |-> cotizaciones_base[i][1],
                       precio |-> cotizaciones_base[i][2],
                       categoria |-> cotizaciones_base[i][3],
                       comentario |->
                           IF comentarios[cotizaciones_base[i]] = SinComentario
                           THEN "" ELSE comentarios[cotizaciones_base[i]],
                       faltan |-> {}]
           /\ \A item \in Items \ Base :
                 \A i \in DOMAIN archivo'.registros :
                    <<archivo'.registros[i].nombre, archivo'.registros[i].precio,
                      archivo'.registros[i].categoria>> # item
           /\ UNCHANGED <<cotizaciones_base, cotizaciones_disponibles,
                          cotizaciones_seleccionadas, comentarios>>]_vars

C30_Testigo ==
    /\ ult.op = "guardar" /\ ult.ret = "True"
    /\ cotizaciones_base = <<ItemB>>
    /\ comentarios[ItemA] = "c1"
    /\ fallas > 0

\* C31 (as stated): when base holds an identity more than once, a removal and
\* a comment act on all its occurrences: after eliminar_cotizacion_base(item)
\* returned True no occurrence of item is left in base, and a comment set on
\* item and saved is the comentario of every record of that identity.
C31_Duplicados ==
    /\ (ult.op = "eliminar" /\ ult.ret = "True")
          => ~In(ult.item, cotizaciones_base)
    /\ (ult.op = "comentario" /\ ult.guardado = "si")
          => /\ archivo.estado = "ok"
             /\ \A i \in 1..Len(archivo.registros) :
                   ItemDe(archivo.registros[i]) = ult.item
                      => archivo.registros[i].comentario = ult.arg

\* the file at ruta after the successful export llamada, when it held antes:
\* wb.save(ruta_completa) replaces the file at the path it is given
ArchivoEn(ruta, antes, llamada) ==
    IF llamada.ret.archivo = ruta THEN llamada.escrito ELSE antes

\* C32 (as stated): two successful calls of exportar_a_excel in the same
\* working directory return different paths, and the later one leaves the
\* file that the earlier one wrote as it was.
C32_SinColision ==
    [][(ult.op = "exportar" /\ ult' # ult)
        => /\ ult'.ret.archivo # ult.ret.archivo
           /\ ArchivoEn(ult.ret.archivo, ult.escrito, ult') = ult.escrito]_vars

\* lista.count(item)
Veces(item, lista) == Cardinality({i \in 1..Len(lista) : lista[i] = item})

\* C33: in every reachable state no identity occurs more than once in
\* cotizaciones_seleccionadas, also when base holds an identity twice.
C33_SinRepetidos ==
    \A item \in Items : Veces(item, cotizaciones_seleccionadas) <= 1

C33_Testigo ==
    /\ ult.op = "agregar" /\ ult.ret = "False"
    /\ Veces(ult.item, cotizaciones_base) = 2
    /\ In(ult.item, cotizaciones_disponibles)
    /\ In(ult.item, cotizaciones_seleccionadas)

\* C34: in every reachable state each identity occurs in
\* cotizaciones_disponibles at most as many times as in cotizaciones_base;
\* so an entry that is no longer in base is not on offer, and available is
\* empty whenever base is.
C34_DisponiblesDeBase ==
    /\ \A item \in Items :
          Veces(item, cotizaciones_disponibles) <= Veces(item, cotizaciones_base)
    /\ Disponibles \subseteq Base
    /\ cotizaciones_base = <<>> => cotizaciones_disponibles = <<>>

C34_Testigo ==
    /\ ult.op = "eliminar" /\ ult.ret = "True"
    /\ Veces(ult.item, cotizaciones_base) = 1
    /\ Veces(ult.item, cotizaciones_disponibles) = 1
    /\ cotizaciones_seleccionadas # <<>>

\* C35 (as stated): right after agregar_nueva_cotizacion_base(n, p, c) the
\* new entry has no comment: obtener_comentario((n, p, c)) gives "" and,
\* the save having succeeded, the record written for it (the last one) has an
\* empty comentario, whatever was called before.
C35_NuevaSinComentario ==
    ult.op = "agregar_base"
    => /\ ComentarioDe(ult.item) = ""
       /\ ult.guardado = "si"
             => /\ archivo.estado = "ok"
                /\ archivo.registros[Len(archivo.registros)].comentario = ""

\* every entry on offer has category c
TodasDeCategoria(c) ==
    \A i \in 1..Len(cotizaciones_disponibles) : cotizaciones_disponibles[i][3] = c

\* C36 (as stated): after filtrar_disponibles_por_categoria(c) with a
\* specific category c, every entry of available has category c, in every
\* later state until the next filter, new quote or load, whatever moves to
\* and from selected and additions to and removals from base come between.
C36_Original ==
    vigente.categoria \in {"X", "Y"} => TodasDeCategoria(vigente.categoria)

\* C36 (amended): the same, until the next filter, new quote or load or the
\* next quitar_de_seleccionadas that succeeds or agregar_nueva_cotizacion_base;
\* it lasts across agregar_a_seleccionadas and eliminar_cotizacion_base.
C36_FiltroVigente ==
    (vigente.categoria \in {"X", "Y"} /\ ~vigente.anexo)
    => TodasDeCategoria(vigente.categoria)

C36_Testigo ==
    /\ vigente.categoria = "X" /\ ~vigente.anexo /\ vigente.movido
    /\ cotizaciones_disponibles # <<>>
    /\ cotizaciones_seleccionadas # <<>>

\* C37: exportar_a_excel, whether it succeeds or fails, leaves base,
\* available, selected, the comments and the JSON storage as they were.
C37_ExportarSinEfecto ==
    [][ult'.op = "exportar"
        => UNCHANGED <<cotizaciones_base, cotizaciones_disponibles,
                       cotizaciones_seleccionadas, comentarios, archivo>>]_vars

C37_Testigo ==
    /\ ult.op = "exportar" /\ ult.ret.exito
    /\ ult.escrito.estado = "completo"
    /\ cotizaciones_seleccionadas = <<ItemA>>
    /\ cotizaciones_disponibles = <<ItemB>>
    /\ comentarios[ItemA] = "c1"
    /\ archivo.estado = "ok"

\* C38: crear_cotizaciones_iniciales leaves a storage file that exists as it
\* is and makes no save; when there is no file and its save succeeds, the
\* storage holds the example catalog (an empty list of records, the example
\* list being empty) and the manager that is built next loads it with
\* success.
C38_CrearIniciales ==
    [][ult'.op = "main"
        => IF archivo.estado # "ausente"
           THEN /\ archivo' = archivo
                /\ ult'.guardado = "-"
                /\ ult'.arg
           ELSE /\ ~ult'.arg
                /\ ult'.guardado \in {"si", "no"}
                /\ ult'.guardado = "si"
                      => /\ archivo'.estado = "ok"
                         /\ Len(archivo'.registros) = Len(cotizaciones_ejemplo)
                         /\ archivo'.registros = <<>>
                         /\ ult'.ret = "True"
                         /\ cotizaciones_base' = cotizaciones_ejemplo]_vars

C38_Testigo ==
    /\ ult.op = "main" /\ ~ult.arg /\ ult.guardado = "si"
    /\ archivo = ArchivoJson(<<>>)
    /\ ult.ret = "True"

====
